---- MODULE Spec2Model ----
(***************************************************************************)
(* A model of mmk (src/main.rs): the run of main() from the parsed Config  *)
(* through window resolution, grab installation and the event dispatch     *)
(* loop, together with the part of the X server the program talks to (the  *)
(* window tree, window properties, this client's event masks and passive   *)
(* grabs, the event queue) and the keyboard mapping translate() consults.  *)
(***************************************************************************)
EXTENDS Integers, Sequences, FiniteSets, TLC

\* ------------------------------------------------------------------ bounds

MaxWindows == 2      \* windows below the root
MaxEvents == 2       \* events the server originates during one run
MaxVanish == 1       \* windows destroyed while grabs are being installed

\* --------------------------------------------------------------- constants

SentinelBound == 204         \* translate(): ret.0 >= 204 || ret.1 >= 204
CURRENT_TIME == 0            \* x11rb::CURRENT_TIME

Root == 0
Windows == 1 .. MaxWindows
BogusWid == MaxWindows + 1   \* an id no window of the tree has
Ids == Windows \cup {BogusWid}

None == << >>
Some(v) == << v >>

Range(s) == { s[i] : i \in 1 .. Len(s) }

\* EventMask bits, as the set of the bits that are set
KEY_PRESS == "KeyPress"
KEY_RELEASE == "KeyRelease"
KeyBits == { KEY_PRESS, KEY_RELEASE }
OtherBits == { "StructureNotify" }

VARIABLES
    config,      \* the parsed Config
    tree,        \* server: parent of every window
    props,       \* server: the properties of every window
    keymap,      \* the keyboard mapping behind the three Xlib lookups
    pc,          \* where main() is
    status,      \* the process' exit status (-1 while it runs)
    output,      \* what was printed: usage, diagnostic, error
    requests,    \* the kinds of protocol work done so far
    clients,     \* main: clients
    windows,     \* main: windows (the TargetSet)
    idx,         \* main: position of the installation loop in wins
    masks,       \* main: masks (the MaskTable)
    yourMask,    \* server: this client's event mask on every window
    origMask,    \* yourMask as it was when the process started
    readMask,    \* the mask m read from a window before the grab went in
    grabs,       \* server: windows with a passive grab of this client
    gone,        \* server: windows destroyed since the tree was queried
    queue,       \* events the server has delivered, not yet fetched
    echo,        \* flushed SendEvent requests the server has yet to deliver
    received,    \* every event fetched by wait_for_event / poll_for_event
    sent,        \* every send_event request made, in order
    outbuf,      \* requests written but not yet flushed
    translated,  \* the arguments of every call of translate, in order
    ret,         \* what the latest call of translate returned
    envCount     \* events the server has originated

vars == << config, tree, props, keymap, pc, status, output, requests, clients,
           windows, idx, masks, yourMask, origMask, readMask, grabs, gone,
           queue, echo, received, sent, outbuf, translated, ret, envCount >>

setupVars == << clients, windows, idx, masks, yourMask, readMask, grabs, gone >>
loopVars == << queue, echo, received, sent, outbuf, translated, ret, envCount >>
envVars == << config, tree, props, keymap, origMask >>

\* ------------------------------------------------------- the input spaces

Layouts == { 0, 1 }
Keycodes == { 38, 39 }
States == { 0, 1 }
NoSymbol == 0
Keysyms == { NoSymbol, 97 }
BackCodes == { 0, 38, 204 }        \* what XKeysymToKeycode may answer
BackMods == { 0, 1, 204 }          \* what XkbKeysymToModifiers may answer

\* WM_CLASS holds two strings; _NET_WM_NAME is stored with a type
ClassA == [ class |-> "A", instance |-> "a" ]
PAll == [ wm_class |-> Some(ClassA), net_wm_pid |-> Some(7),
          wm_name |-> Some("Editor"), net_wm_name |-> None ]
PClass == [ wm_class |-> Some(ClassA), net_wm_pid |-> None,
            wm_name |-> Some("Term"), net_wm_name |-> None ]
PNet == [ wm_class |-> None, net_wm_pid |-> Some(7), wm_name |-> None,
          net_wm_name |-> Some([ type |-> "UTF8_STRING", value |-> "Editor" ]) ]
Profiles == { PAll, PClass, PNet }

\* every window hangs below the root or below a window with a smaller id
Trees == { t \in [ Windows -> {Root} \cup Windows ] : \A w \in Windows : t[w] < w }

Configs ==
    [ help : BOOLEAN, all_windows : BOOLEAN, layout : Layouts,
      wid : { None } \cup { Some(w) : w \in Ids },
      class : { None, Some("A.a") },
      pid : { None, Some(7) },
      name : { None, Some("Editor") } ]

\* layout 0 has 'a' on key 38; layout 1 has it on key 39 and nothing on key 38
DefaultKeymap ==
    [ sym |-> [ k \in Keycodes \X Layouts \X States |->
                  IF (k[1] = 38 /\ k[2] = 0) \/ (k[1] = 39 /\ k[2] = 1)
                  THEN 97 ELSE NoSymbol ],
      code |-> [ s \in Keysyms |-> IF s = 97 THEN 38 ELSE 0 ],
      mods |-> [ s \in Keysyms |-> 0 ] ]

\* every mapping of the small key, keysym and answer spaces
KeyMaps ==
    { [ sym |-> s, code |-> c, mods |-> m ] :
        s \in [ Keycodes \X Layouts \X States -> Keysyms ],
        c \in [ Keysyms -> BackCodes ],
        m \in [ Keysyms -> BackMods ] }

\* ------------------------------------------------------------- translate

\* a keycode, group or level the mapping does not have gives NoSymbol
XkbKeycodeToKeysym(kc, group, level) ==
    IF << kc, group, level >> \in DOMAIN keymap.sym
    THEN keymap.sym[<< kc, group, level >>]
    ELSE NoSymbol
XKeysymToKeycode(ks) == keymap.code[ks]
XkbKeysymToModifiers(ks) == keymap.mods[ks]

translate(ev, layout_index) ==
    LET layout_keysym == XkbKeycodeToKeysym(ev.detail, layout_index, ev.state)
        r == << XKeysymToKeycode(layout_keysym),
                XkbKeysymToModifiers(layout_keysym) >>
    IN  IF r[1] >= SentinelBound \/ r[2] >= SentinelBound
        THEN << ev.detail, ev.state >>
        ELSE r

\* -------------------------------------------------------- rec_query_tree

Children(win) ==
    LET kids == { w \in Windows : tree[w] = win }
        RECURSIVE Sorted(_)
        Sorted(S) == IF S = {} THEN << >>
                     ELSE LET m == CHOOSE x \in S : \A y \in S : x <= y
                          IN  << m >> \o Sorted(S \ {m})
    IN  Sorted(kids)

\* rec_query_tree with the fault of pushing a child before walking below it
RECURSIVE rec_query_tree_push_first(_, _)
rec_query_tree_push_first(win, vec) ==
    LET RECURSIVE Visit(_, _)
        Visit(kids, v) ==
            IF kids = << >> THEN v
            ELSE Visit(Tail(kids),
                       rec_query_tree_push_first(Head(kids), Append(v, Head(kids))))
    IN  Visit(Children(win), vec)

RECURSIVE rec_query_tree(_, _)
rec_query_tree(win, vec) ==
    LET RECURSIVE Visit(_, _)
        Visit(kids, v) ==
            IF kids = << >> THEN v
            ELSE Visit(Tail(kids),
                       Append(rec_query_tree(Head(kids), v), Head(kids)))
    IN  IF win \notin Range(vec) THEN Visit(Children(win), vec) ELSE vec

\* ------------------------------------------------------ window resolution

\* get_property(.., type, ..): the value only when the stored type is `type`
GetString(p) == IF p = None THEN "" ELSE p[1]
GetTyped(p, type) == IF p # None /\ p[1].type = type THEN p[1].value ELSE ""

ClassString(c) == c.class \o "." \o c.instance

ClassMatches(client, class) ==
    /\ props[client].wm_class # None
    /\ class = ClassString(props[client].wm_class[1])

ClientPid(client) ==
    IF props[client].net_wm_pid = None THEN 0 ELSE props[client].net_wm_pid[1]

PidMatches(client, pid) == ClientPid(client) = pid

NameMatches(client, name) ==
    LET client_net_name == GetTyped(props[client].net_wm_name, "STRING")
        client_name == GetString(props[client].wm_name)
    IN  client_net_name = name \/ client_name = name

ResolveWid(ws) ==
    IF config.wid # None THEN Append(ws, config.wid[1]) ELSE ws

ResolveClass(ws) ==
    IF config.class # None
    THEN ws \o SelectSeq(clients, LAMBDA c : ClassMatches(c, config.class[1]))
    ELSE ws

ResolvePid(ws) ==
    IF config.pid # None
    THEN ws \o SelectSeq(clients, LAMBDA c : PidMatches(c, config.pid[1]))
    ELSE ws

ResolveName(ws) ==
    IF config.name # None
    THEN ws \o SelectSeq(clients, LAMBDA c : NameMatches(c, config.name[1]))
    ELSE ws

ResolveWindows == ResolveName(ResolvePid(ResolveClass(ResolveWid(<< >>))))

\* Wins with the fault of taking the last match, not the first
WinsLastMatch ==
    IF config.all_windows THEN windows ELSE << windows[Len(windows)] >>

\* the windows the installation loop goes over
Wins == IF config.all_windows THEN windows ELSE << windows[1] >>

\* ------------------------------------------------------------------ events

IsKey(e) == e.type \in { "KeyPress", "KeyRelease" }

KeyEvents(ws) ==
    [ type : { "KeyPress", "KeyRelease" }, sent_event : { FALSE }, event : ws,
      detail : Keycodes, state : { 0 }, time : { 1 } ]

OtherEvent ==
    [ type |-> "Other", sent_event |-> FALSE, event |-> Root, detail |-> 0,
      state |-> 0, time |-> 1 ]

\* ---------------------------------------------------------------- startup

Init ==
    /\ config \in Configs
    /\ tree \in Trees
    /\ props \in [ Windows -> Profiles ]
    /\ keymap = DefaultKeymap
    /\ yourMask \in { [ w \in Windows |-> m ] : m \in { {}, OtherBits } }
    /\ origMask = yourMask
    /\ pc = "start"
    /\ status = -1
    /\ output = {}
    /\ requests = {}
    /\ clients = << >>
    /\ windows = << >>
    /\ idx = 0
    /\ masks = << >>
    /\ readMask = << >>
    /\ grabs = {}
    /\ gone = {}
    /\ queue = << >>
    /\ echo = << >>
    /\ received = << >>
    /\ sent = << >>
    /\ outbuf = << >>
    /\ translated = << >>
    /\ ret = None
    /\ envCount = 0

\* Fail with the fault of reporting the error and carrying on
FailCarriesOn(err) ==
    /\ pc' = pc
    /\ status' = status
    /\ output' = output \cup { err }

\* a `?` that returns Err from main: the process reports it and exits 1
Fail(err) ==
    /\ pc' = "error"
    /\ status' = 1
    /\ output' = output \cup { err }

\* connect(None) and XkbOpenDisplay
Connect ==
    /\ pc = "start"
    /\ pc' = "connected"
    /\ requests' = requests \cup { "connect" }
    /\ UNCHANGED << status, output, envVars, setupVars, loopVars >>

ConnectFails ==
    /\ pc = "start"
    /\ Fail("ConnectionError")
    /\ UNCHANGED << requests, envVars, setupVars, loopVars >>

\* the two intern_atom round trips
InternAtoms ==
    /\ pc = "connected"
    /\ pc' = "atoms"
    /\ requests' = requests \cup { "intern_atom" }
    /\ UNCHANGED << status, output, envVars, setupVars, loopVars >>

InternAtomsFails ==
    /\ pc = "connected"
    /\ Fail("ConnectionError")
    /\ requests' = requests \cup { "intern_atom" }
    /\ UNCHANGED << envVars, setupVars, loopVars >>

\* config.help.then(|| { print!(usage()); exit(0) })
Help ==
    /\ pc = "atoms"
    /\ config.help
    /\ pc' = "exit"
    /\ status' = 0
    /\ output' = output \cup { "usage" }
    /\ UNCHANGED << requests, envVars, setupVars, loopVars >>

QueryTree ==
    /\ pc = "atoms"
    /\ ~ config.help
    /\ clients' = rec_query_tree(Root, << >>)
    /\ requests' = requests \cup { "query_tree" }
    /\ pc' = "queried"
    /\ UNCHANGED << status, output, envVars, windows, idx, masks, yourMask,
                    readMask, grabs, gone, loopVars >>

QueryTreeFails ==
    /\ pc = "atoms"
    /\ ~ config.help
    /\ Fail("ConnectionError")
    /\ requests' = requests \cup { "query_tree" }
    /\ UNCHANGED << envVars, setupVars, loopVars >>

UsesProperties ==
    config.class # None \/ config.pid # None \/ config.name # None

\* the four criterion blocks
Resolve ==
    /\ pc = "queried"
    /\ windows' = ResolveWindows
    /\ requests' = requests \cup
                   (IF UsesProperties /\ clients # << >> THEN { "get_property" } ELSE {})
    /\ idx' = 1
    /\ pc' = "install"
    /\ UNCHANGED << status, output, envVars, clients, masks, yourMask, readMask,
                    grabs, gone, loopVars >>

ResolveFails ==
    /\ pc = "queried"
    /\ UsesProperties /\ clients # << >>
    /\ Fail("ConnectionError")
    /\ requests' = requests \cup { "get_property" }
    /\ UNCHANGED << envVars, setupVars, loopVars >>

\* ExitNoWindow with the fault of a missing exit: the run goes on into the loop
ExitNoWindowFallsThrough ==
    /\ pc = "install"
    /\ windows = << >>
    /\ pc' = "idle"
    /\ output' = output \cup { "diagnostic" }
    /\ UNCHANGED << status, requests, envVars, setupVars, loopVars >>

\* eprintln!("error: No window ...") and exit(1)
ExitNoWindow ==
    /\ pc = "install"
    /\ windows = << >>
    /\ pc' = "exit"
    /\ status' = 1
    /\ output' = output \cup { "diagnostic" }
    /\ UNCHANGED << requests, envVars, setupVars, loopVars >>

\* ------------------------------------------------------- grab installation

\* the server destroys a window while the grabs are going in
WindowVanishes ==
    /\ pc = "install"
    /\ Cardinality(gone) < MaxVanish
    /\ windows # << >>
    /\ \E w \in { Wins[i] : i \in idx .. Len(Wins) } \cap (Windows \ gone) :
           /\ gone' = gone \cup { w }
           /\ grabs' = grabs \ { w }
    /\ UNCHANGED << pc, status, output, requests, envVars, clients, windows, idx,
                    masks, yourMask, readMask, loopVars >>

Exists(window) == window \in Windows \ gone

\* InstalledMask with the fault of dropping the bits already selected
InstalledMaskKeysOnly(m) == { KEY_PRESS, KEY_RELEASE }

InstalledMask(m) == m \cup { KEY_PRESS, KEY_RELEASE }

\* insert with the fault of recording the first window only
insertIfEmpty(table, k, v) == IF table = << >> THEN (k :> v) ELSE table

\* masks.insert(window, ..)
insert(table, k, v) == (k :> v) @@ table

\* one turn of `for window in wins`
InstallGrab ==
    /\ pc = "install"
    /\ windows # << >>
    /\ idx <= Len(Wins)
    /\ LET window == Wins[idx]
       IN  /\ Exists(window)
           /\ LET m == yourMask[window]
              IN  /\ readMask' = (window :> m) @@ readMask
                  /\ yourMask' = [ yourMask EXCEPT ![window] = InstalledMask(m) ]
           /\ grabs' = grabs \cup { window }
           /\ masks' = insert(masks, window, yourMask'[window])
    /\ requests' = requests \cup { "get_window_attributes",
                                   "change_window_attributes", "grab_key" }
    /\ idx' = idx + 1
    /\ pc' = IF idx = Len(Wins) THEN "idle" ELSE "install"
    /\ UNCHANGED << status, output, envVars, clients, windows, gone, loopVars >>

\* get_window_attributes(window)?.reply()? on a window that is not there
InstallVanished ==
    /\ pc = "install"
    /\ windows # << >>
    /\ idx <= Len(Wins)
    /\ ~ Exists(Wins[idx])
    /\ Fail("BadWindow")
    /\ requests' = requests \cup { "get_window_attributes" }
    /\ UNCHANGED << envVars, setupVars, loopVars >>

InstallIoFails ==
    /\ pc = "install"
    /\ windows # << >>
    /\ idx <= Len(Wins)
    /\ Fail("ConnectionError")
    /\ requests' = requests \cup { "get_window_attributes" }
    /\ UNCHANGED << envVars, setupVars, loopVars >>

\* ------------------------------------------------------- the dispatch loop

InLoop == pc \in { "idle", "draining" }

\* the server reports a key event of a grabbed window, or some other event
ServerEvent ==
    /\ InLoop
    /\ envCount < MaxEvents
    /\ \E e \in KeyEvents(grabs \ gone) \cup { OtherEvent } :
           queue' = Append(queue, e)
    /\ envCount' = envCount + 1
    /\ UNCHANGED << pc, status, output, requests, envVars, setupVars, echo,
                    received, sent, outbuf, translated, ret >>

\* the server delivers a flushed SendEvent to the clients selecting on the
\* destination with the given mask, this one among them, marked as sent
Selected(req) ==
    /\ req.destination \in Windows \ gone
    /\ yourMask[req.destination] \cap req.event_mask # {}

ServerEcho ==
    /\ InLoop
    /\ echo # << >>
    /\ echo' = Tail(echo)
    /\ queue' = IF Selected(Head(echo))
                THEN Append(queue, [ Head(echo).event EXCEPT !.sent_event = TRUE ])
                ELSE queue
    /\ UNCHANGED << pc, status, output, requests, envVars, setupVars, received,
                    sent, outbuf, translated, ret, envCount >>

\* conn.wait_for_event()?
WaitForEvent ==
    /\ pc = "idle"
    /\ queue # << >>
    /\ received' = Append(received, Head(queue))
    /\ queue' = Tail(queue)
    /\ pc' = "draining"
    /\ UNCHANGED << status, output, requests, envVars, setupVars, echo, sent,
                    outbuf, translated, ret, envCount >>

WaitFails ==
    /\ pc = "idle"
    /\ Fail("ConnectionError")
    /\ UNCHANGED << requests, envVars, setupVars, loopVars >>

\* Current with the fault of matching on the event of the blocking wait again
CurrentStale == received[1]

\* the event the match is looking at
Current == received[Len(received)]

\* Forwarded with the fault of not looking at the origin flag
ForwardedAnyOrigin(e) == IsKey(e)

\* Forwarded with the fault of not looking at the kind of the event
ForwardedAnyKind(e) == ~ e.sent_event

\* if !event.sent_event(): the key events that get translated and re-sent
Forwarded(e) == IsKey(e) /\ ~ e.sent_event

\* send_event(true, ..): the propagate argument
Propagate == TRUE

\* Mutated with the fault of leaving the server's timestamp in place
MutatedKeepsTime(e) ==
    LET r == translate(e, config.layout)
    IN  [ e EXCEPT !.detail = r[1], !.state = r[2] ]

\* e.detail, e.state, e.time overwritten
Mutated(e) ==
    LET r == translate(e, config.layout)
    IN  [ e EXCEPT !.detail = r[1], !.state = r[2], !.time = CURRENT_TIME ]

SendRequest(e) ==
    [ propagate |-> Propagate, destination |-> e.event,
      event_mask |-> masks[e.event], event |-> Mutated(e) ]

\* Poll with the fault of ending the drain after one event
PollNone(q) ==
    /\ pc' = "idle"
    /\ UNCHANGED << received, queue >>

\* flush with the fault of leaving the requests in the buffer
flushNothing(buf) == [ wire |-> << >>, buffer |-> buf ]

\* the table with the fault of a lookup that takes the entry out
TableAfterLookupTakes(table, w) == [ x \in DOMAIN table \ { w } |-> table[x] ]

\* masks[&e.event]: indexing reads the table and leaves it as it is
TableAfterLookup(table, w) == table

\* the variables of setup the dispatch loop has no statement for
setupRest == << clients, windows, idx, yourMask, readMask, grabs, gone >>

\* conn.flush()?: everything buffered goes onto the wire
flush(buf) == [ wire |-> buf, buffer |-> << >> ]

\* event_opt = conn.poll_for_event()?
Poll(q) ==
    /\ IF q = << >>
       THEN /\ pc' = "idle"
            /\ UNCHANGED received
       ELSE /\ pc' = "draining"
            /\ received' = Append(received, Head(q))
    /\ queue' = IF q = << >> THEN q ELSE Tail(q)

\* one turn of `while let Some(event) = event_opt`: the match and the poll
Dispatch ==
    /\ pc = "draining"
    /\ LET e == Current
       IN  IF Forwarded(e)
           THEN /\ e.event \in DOMAIN masks    \* masks[&e.event] panics otherwise
                /\ translated' = Append(translated,
                       [ detail |-> e.detail, state |-> e.state,
                         layout |-> config.layout ])
                /\ ret' = Some(translate(e, config.layout))
                /\ sent' = Append(sent, SendRequest(e))
                /\ LET f == flush(Append(outbuf, SendRequest(e)))
                   IN  /\ echo' = echo \o f.wire
                       /\ outbuf' = f.buffer
                /\ requests' = requests \cup { "send_event" }
                /\ masks' = TableAfterLookup(masks, e.event)
           ELSE UNCHANGED << translated, ret, sent, echo, outbuf, requests,
                             masks >>
    /\ Poll(queue)
    /\ UNCHANGED << status, output, envVars, setupRest, envCount >>

\* send_event(..)? fails: nothing is sent
DispatchSendFails ==
    /\ pc = "draining"
    /\ Forwarded(Current)
    /\ Current.event \in DOMAIN masks
    /\ translated' = Append(translated,
           [ detail |-> Current.detail, state |-> Current.state,
             layout |-> config.layout ])
    /\ ret' = Some(translate(Current, config.layout))
    /\ masks' = TableAfterLookup(masks, Current.event)
    /\ Fail("ConnectionError")
    /\ UNCHANGED << requests, envVars, setupRest, queue, echo, received, sent,
                    outbuf, envCount >>

\* flush()? fails: the request stays in the buffer
DispatchFlushFails ==
    /\ pc = "draining"
    /\ Forwarded(Current)
    /\ Current.event \in DOMAIN masks
    /\ translated' = Append(translated,
           [ detail |-> Current.detail, state |-> Current.state,
             layout |-> config.layout ])
    /\ ret' = Some(translate(Current, config.layout))
    /\ sent' = Append(sent, SendRequest(Current))
    /\ outbuf' = Append(outbuf, SendRequest(Current))
    /\ requests' = requests \cup { "send_event" }
    /\ masks' = TableAfterLookup(masks, Current.event)
    /\ Fail("ConnectionError")
    /\ UNCHANGED << envVars, setupRest, queue, echo, received, envCount >>

\* poll_for_event()? fails after the event was handled
DispatchPollFails ==
    /\ pc = "draining"
    /\ LET e == Current
       IN  IF Forwarded(e)
           THEN /\ e.event \in DOMAIN masks
                /\ translated' = Append(translated,
                       [ detail |-> e.detail, state |-> e.state,
                         layout |-> config.layout ])
                /\ ret' = Some(translate(e, config.layout))
                /\ sent' = Append(sent, SendRequest(e))
                /\ LET f == flush(Append(outbuf, SendRequest(e)))
                   IN  /\ echo' = echo \o f.wire
                       /\ outbuf' = f.buffer
                /\ requests' = requests \cup { "send_event" }
                /\ masks' = TableAfterLookup(masks, e.event)
           ELSE UNCHANGED << translated, ret, sent, echo, outbuf, requests,
                             masks >>
    /\ Fail("ConnectionError")
    /\ UNCHANGED << envVars, setupRest, queue, received, envCount >>

\* main up to the entry of the dispatch loop
NextSetup ==
    \/ Connect
    \/ ConnectFails
    \/ InternAtoms
    \/ InternAtomsFails
    \/ Help
    \/ QueryTree
    \/ QueryTreeFails
    \/ Resolve
    \/ ResolveFails
    \/ ExitNoWindow
    \/ WindowVanishes
    \/ InstallGrab
    \/ InstallVanished
    \/ InstallIoFails

\* the dispatch loop and the server feeding it
NextLoop ==
    \/ ServerEvent
    \/ ServerEcho
    \/ WaitForEvent
    \/ WaitFails
    \/ Dispatch
    \/ DispatchSendFails
    \/ DispatchFlushFails
    \/ DispatchPollFails

Next == NextSetup \/ NextLoop

\* the whole run, over every input of Init
Spec == Init /\ [][Next]_vars

\* startup, resolution and installation, over every input of Init
SpecSetup == Init /\ [][NextSetup]_vars

\* the runs selecting by name alone, on a flat tree of named windows
InitLoop ==
    /\ Init
    /\ config.wid = None /\ config.class = None /\ config.pid = None
    /\ config.name # None
    /\ \A w \in Windows : tree[w] = Root /\ props[w] \in { PAll, PClass }

\* the whole run, setup and dispatch loop, over the inputs of InitLoop
SpecLoop == InitLoop /\ [][Next]_vars

\* ------------------------------------------------- translate on its own

\* one call of translate on a key event, under any keyboard mapping
InitT ==
    /\ config \in { c \in Configs : ~ c.help /\ ~ c.all_windows /\ c.wid = None
                                    /\ c.class = None /\ c.pid = None
                                    /\ c.name = None }
    /\ tree \in { t \in Trees : \A w \in Windows : t[w] = Root }
    /\ props = [ w \in Windows |-> PAll ]
    /\ keymap \in KeyMaps
    /\ yourMask = [ w \in Windows |-> {} ]
    /\ origMask = yourMask
    /\ pc = "translate"
    /\ status = -1
    /\ output = {}
    /\ requests = {}
    /\ clients = << >>
    /\ windows = << >>
    /\ idx = 0
    /\ masks = << >>
    /\ readMask = << >>
    /\ grabs = {}
    /\ gone = {}
    /\ queue = << >>
    /\ echo = << >>
    /\ received \in { << e >> :
           e \in [ type : { "KeyPress", "KeyRelease" }, sent_event : { FALSE },
                   event : { 1 }, detail : Keycodes, state : States,
                   time : { 1 } ] }
    /\ sent = << >>
    /\ outbuf = << >>
    /\ translated = << >>
    /\ ret = None
    /\ envCount = 0

TranslateCall ==
    /\ pc = "translate"
    /\ translated' = Append(translated,
           [ detail |-> Current.detail, state |-> Current.state,
             layout |-> config.layout ])
    /\ ret' = Some(translate(Current, config.layout))
    /\ pc' = "translated"
    /\ UNCHANGED << status, output, requests, envVars, setupVars, queue, echo,
                    received, sent, outbuf, envCount >>

NextT == TranslateCall

SpecT == InitT /\ [][NextT]_vars

\* ------------------------------------------------------------ the claims

Resolved == idx >= 1

\* the events whose turn of the loop is over
Handled ==
    IF pc = "draining" THEN SubSeq(received, 1, Len(received) - 1) ELSE received

RealKeys(seq) == { i \in 1 .. Len(seq) : IsKey(seq[i]) /\ ~ seq[i].sent_event }
SyntheticKeys(seq) == { i \in 1 .. Len(seq) : IsKey(seq[i]) /\ seq[i].sent_event }

\* C1: an event marked as sent (synthetic), key-press or key-release, is never
\* translated and never re-sent: while the loop runs, the number of events sent
\* and the number of translate calls both equal the number of handled key
\* events that are not synthetic, and after a failure they never exceed the
\* number of such events received.
C1_SyntheticNeverForwarded ==
    /\ InLoop =>
         /\ Len(sent) = Cardinality(RealKeys(Handled))
         /\ Len(translated) = Cardinality(RealKeys(Handled))
    /\ Len(sent) <= Cardinality(RealKeys(received))
    /\ Len(translated) <= Cardinality(RealKeys(received))

\* a synthetic key-press and a synthetic key-release have both been handled
C1_Witness ==
    /\ InLoop
    /\ \E i \in SyntheticKeys(Handled) : Handled[i].type = "KeyPress"
    /\ \E i \in SyntheticKeys(Handled) : Handled[i].type = "KeyRelease"
    /\ Len(sent) = 2

CriteriaGiven ==
    Cardinality({ c \in { "class", "pid", "name" } : config[c] # None })

\* the window's legacy name or its extended name, whatever its type, is `name`
HasName(w, name) ==
    \/ props[w].wm_name = Some(name)
    \/ props[w].net_wm_name # None /\ props[w].net_wm_name[1].value = name

SatisfiesAll(w) ==
    /\ config.class # None => ClassMatches(w, config.class[1])
    /\ config.pid # None => PidMatches(w, config.pid[1])
    /\ config.name # None => HasName(w, config.name[1])

\* C2: with more than one of class, pid and name given (and no explicit id), a
\* window is in the TargetSet only if it satisfies every criterion given.
C2_ConjunctiveResolution ==
    (Resolved /\ config.wid = None /\ CriteriaGiven > 1) =>
        \A i \in 1 .. Len(windows) : SatisfiesAll(windows[i])

\* C3: the TargetSet holds no window id more than once.
C3_NoDuplicateTargets ==
    \A i, j \in 1 .. Len(windows) : windows[i] = windows[j] => i = j

\* the installation loop has gone over every window of wins
Installed == windows # << >> /\ idx > Len(Wins)

FirstIn(seq, S) ==
    seq[CHOOSE i \in 1 .. Len(seq) :
            seq[i] \in S /\ \A j \in 1 .. i - 1 : seq[j] \notin S]

ByClass(c) == config.class # None /\ ClassMatches(c, config.class[1])
ByPid(c) == config.pid # None /\ PidMatches(c, config.pid[1])
ByName(c) == config.name # None /\ NameMatches(c, config.name[1])

\* the explicit id, else the first match by class, by pid, by name, in the
\* order of the tree walk
FirstMatch ==
    IF config.wid # None THEN config.wid[1]
    ELSE IF \E c \in Range(clients) : ByClass(c)
         THEN FirstIn(clients, { c \in Range(clients) : ByClass(c) })
    ELSE IF \E c \in Range(clients) : ByPid(c)
         THEN FirstIn(clients, { c \in Range(clients) : ByPid(c) })
    ELSE FirstIn(clients, { c \in Range(clients) : ByName(c) })

AllMatches ==
    (IF config.wid # None THEN { config.wid[1] } ELSE {})
    \cup { c \in Range(clients) : ByClass(c) \/ ByPid(c) \/ ByName(c) }

\* C4: without all_windows, and with at least one window found, no window but
\* the first of the match sequence is ever grabbed or recorded in MaskTable, and
\* once installation is over exactly that one is; with all_windows every matched
\* window is grabbed and recorded once installation is over.
C4_FirstOrAllInstalled ==
    (Resolved /\ windows # << >>) =>
        /\ ~ config.all_windows =>
             /\ grabs \subseteq { FirstMatch }
             /\ DOMAIN masks \subseteq { FirstMatch }
             /\ Installed => grabs = { FirstMatch } /\ DOMAIN masks = { FirstMatch }
        /\ config.all_windows =>
             /\ grabs \subseteq AllMatches
             /\ DOMAIN masks \subseteq AllMatches
             /\ Installed => grabs = AllMatches /\ DOMAIN masks = AllMatches

\* one target out of several distinct matches, and all of several matches
C4_Witness ==
    /\ Installed
    /\ ~ config.all_windows
    /\ config.wid = None
    /\ Cardinality(Range(windows)) > 1
    /\ windows[1] # clients[1]
    /\ grabs = { windows[1] }

\* C5: when no window matches, the process prints the diagnostic and exits
\* with status 1; no window attribute is changed, no grab is installed and the
\* dispatch loop is not entered.
C5_NoMatchExits ==
    (Resolved /\ windows = << >>) =>
        /\ pc \in { "install", "exit" }
        /\ pc = "exit" => status = 1 /\ "diagnostic" \in output
        /\ pc = "install" => ENABLED ExitNoWindow /\ ~ ENABLED InstallGrab
        /\ yourMask = origMask
        /\ grabs = {}
        /\ masks = << >>
        /\ requests \cap { "get_window_attributes", "change_window_attributes",
                           "grab_key", "send_event" } = {}
        /\ received = << >>

\* criteria were given, the tree has windows, none matched, the process is out
C5_Witness ==
    /\ Resolved
    /\ windows = << >>
    /\ UsesProperties
    /\ clients # << >>
    /\ pc = "exit"
    /\ status = 1

\* C6: for every window recorded in MaskTable the stored mask holds every bit
\* of the mask read from the window before the grab went in (and of the mask the
\* window had at the start) and holds the key-press and the key-release bit.
C6_MaskSuperset ==
    \A w \in DOMAIN masks :
        /\ readMask[w] \subseteq masks[w]
        /\ origMask[w] \subseteq masks[w]
        /\ KeyBits \subseteq masks[w]

\* a window with a bit of its own, installed a second time
C6_Witness ==
    \E w \in DOMAIN masks :
        /\ origMask[w] # {}
        /\ KeyBits \subseteq readMask[w]
        /\ origMask[w] \subseteq readMask[w]

\* C7: translate returns its input whenever a lookup is invalid (no keysym for
\* the keycode under the group, no keycode for the keysym, or a backward result
\* >= 204), and the backward-resolved pair in every other case.
C7_IdentityFallback ==
    (pc = "translated" /\ ret # None) =>
        LET a == translated[Len(translated)]
            ks == keymap.sym[<< a.detail, a.layout, a.state >>]
            kc == keymap.code[ks]
            md == keymap.mods[ks]
            invalid == \/ ks = NoSymbol
                       \/ kc = 0
                       \/ kc >= SentinelBound
                       \/ md >= SentinelBound
        IN  ret[1] = IF invalid THEN << a.detail, a.state >> ELSE << kc, md >>

\* C8: every event is sent with propagate enabled in all_windows mode and with
\* propagate disabled when the run has a single target window.
C8_PropagatePerMode ==
    \A i \in 1 .. Len(sent) : sent[i].propagate = config.all_windows

\* C9: in all_windows mode a matched window that has vanished does not end the
\* process: it is skipped and the remaining matched windows are installed.
C9_VanishedWindowSkipped ==
    (/\ config.all_windows
     /\ gone \cap Range(windows) # {}
     /\ (Range(windows) \cap Windows) \ gone # {}) =>
        ~ (pc = "error" /\ "BadWindow" \in output)

\* C10: a run with the help flag opens no connection and issues no protocol
\* request; it prints the usage text and exits 0.
C10_HelpBeforeProtocol ==
    config.help =>
        /\ requests = {}
        /\ pc = "exit" => status = 0 /\ "usage" \in output

\* the key events of seq that are not synthetic, in the order of seq
RealKeySeq(seq) == SelectSeq(seq, LAMBDA e : IsKey(e) /\ ~ e.sent_event)

\* a step that translates or sends: every key event fetched earlier has its
\* synthetic event sent, in the order of fetching, and nothing is left in the
\* output buffer; what is translated and sent is for the event fetched last
C11_Step ==
    (Len(sent') > Len(sent) \/ Len(translated') > Len(translated)) =>
        LET before == RealKeySeq(SubSeq(received, 1, Len(received) - 1))
            b == received[Len(received)]
        IN  /\ Len(sent) = Len(before)
            /\ Len(translated) = Len(before)
            /\ \A i \in 1 .. Len(before) :
                   /\ sent[i].destination = before[i].event
                   /\ sent[i].event.type = before[i].type
            /\ outbuf = << >>
            /\ IsKey(b) /\ ~ b.sent_event
            /\ translated' = Append(translated,
                   [ detail |-> b.detail, state |-> b.state,
                     layout |-> config.layout ])
            /\ Len(sent') > Len(sent) =>
                   /\ Len(sent') = Len(sent) + 1
                   /\ SubSeq(sent', 1, Len(sent)) = sent
                   /\ sent'[Len(sent')].destination = b.event
                   /\ sent'[Len(sent')].event.type = b.type

\* C11: synthetic events are emitted in the order in which the non-synthetic
\* key events were delivered: when the event for B is translated or sent, the
\* synthetic event of every key event A fetched before B has been sent and
\* flushed, in the order of fetching, and the event sent next is the one for B.
C11_InDeliveryOrder == [][C11_Step]_vars

\* two different key events, both delivered by the server, both re-sent
C11_Witness ==
    /\ InLoop
    /\ Len(sent) = 2
    /\ RealKeys(Handled) = { 1, 2 }
    /\ Handled[1].event # Handled[2].event
    /\ Handled[1].type # Handled[2].type
    /\ sent[1].destination = Handled[1].event
    /\ sent[2].destination = Handled[2].event

\* C12: for each non-synthetic key-press or key-release received for window w
\* the loop emits exactly one synthetic event: of the same kind, addressed to
\* w, carrying the pair translate returns for the event under the configured
\* layout, sent with the mask MaskTable holds for w and with the timestamp
\* CURRENT_TIME.
C12_OneTranslatedEventPerKey ==
    InLoop =>
        LET keys == RealKeySeq(Handled)
        IN  /\ Len(sent) = Len(keys)
            /\ \A i \in 1 .. Len(keys) :
                   LET r == translate(keys[i], config.layout)
                       w == keys[i].event
                   IN  /\ sent[i].destination = w
                       /\ sent[i].event.event = w
                       /\ sent[i].event.type = keys[i].type
                       /\ sent[i].event.detail = r[1]
                       /\ sent[i].event.state = r[2]
                       /\ sent[i].event.time = CURRENT_TIME
                       /\ w \in DOMAIN masks
                       /\ sent[i].event_mask = masks[w]

\* a press and a release were re-sent, one with a keycode translate changed,
\* under a mask that holds more than the two key bits
C12_Witness ==
    /\ InLoop
    /\ Len(sent) = 2
    /\ { Handled[i].type : i \in RealKeys(Handled) } = { "KeyPress", "KeyRelease" }
    /\ \E i \in 1 .. Len(sent) :
           /\ sent[i].event.detail # RealKeySeq(Handled)[i].detail
           /\ sent[i].event_mask # KeyBits

\* what one step may do to the place of the loop
C13_Step ==
    /\ InLoop => pc' \in { "idle", "draining", "error" }
    /\ (pc = "idle" /\ pc' = "draining") =>
           queue # << >> /\ received' = Append(received, Head(queue))
    /\ (pc = "idle" /\ pc' = "idle") => received' = received
    /\ (pc = "draining" /\ pc' = "draining" /\ received' # received) =>
           queue # << >> /\ received' = Append(received, Head(queue))
    /\ (pc = "draining" /\ pc' = "idle") =>
           queue = << >> /\ received' = received
    /\ (InLoop /\ pc' = "error") => status' = 1 /\ "ConnectionError" \in output'

\* C13: the loop fetches an event by the blocking wait only when idle and is
\* then draining; while draining it is never blocked, it stays draining when
\* the poll returns a queued event and goes back to idle only when the poll
\* finds the queue empty; it leaves the two places only by an I/O failure.
C13_IdleDraining ==
    /\ [](pc = "draining" => ENABLED Dispatch)
    /\ []((pc = "idle" /\ queue # << >>) => ENABLED WaitForEvent)
    /\ [][C13_Step]_vars

\* back to idle with the queue empty, after three events were handled
C13_Witness ==
    /\ pc = "idle"
    /\ queue = << >>
    /\ Len(received) = 3

\* C14: every emission is flushed at once: wherever the loop fetches the next
\* event, by the wait when idle or by the poll that made it draining, the
\* output buffer is empty; only a flush that failed leaves a request behind,
\* the one sent last.
C14_FlushedBeforeFetch ==
    /\ InLoop => outbuf = << >>
    /\ Len(outbuf) <= 1
    /\ outbuf # << >> => pc = "error" /\ outbuf[1] = sent[Len(sent)]

\* two events were sent, the second is on its way to the server's clients
C14_Witness ==
    /\ InLoop
    /\ Len(sent) = 2
    /\ echo # << >>
    /\ echo[Len(echo)] = sent[2]
    /\ outbuf = << >>

\* an I/O call of the dispatch loop has failed
LoopFailed == Installed /\ "ConnectionError" \in output

\* C15: a failure of the wait, the poll, the send or the flush ends the loop
\* and the process with an error: the exit status is 1, and from then on no
\* step is taken at all: no event is fetched, translated or sent again.
C15_FailureIsFatal ==
    /\ [](LoopFailed => pc = "error" /\ status = 1 /\ ~ ENABLED Next)
    /\ [][LoopFailed => UNCHANGED << received, translated, sent, echo, outbuf,
                                     queue >>]_vars

\* the send of the second key event failed after the first went through
C15_Witness ==
    /\ LoopFailed
    /\ pc = "error"
    /\ Len(sent) = 1
    /\ Len(translated) = 2
    /\ outbuf = << >>

\* the loop is looking at an event that is neither key-press nor key-release
AtNonKey ==
    /\ pc = "draining"
    /\ received[Len(received)].type \notin { "KeyPress", "KeyRelease" }

\* C16: an event that is neither a key-press nor a key-release is discarded:
\* the turn of the loop that handles it can always be taken, it calls translate
\* for nothing, sends nothing, puts nothing into the output buffer or onto the
\* wire, and it ends in the poll: the next queued event is fetched, or the loop
\* is idle with the queue empty, or the poll has failed.
C16_NonKeyDiscarded ==
    /\ [](AtNonKey => ENABLED Dispatch)
    /\ [][AtNonKey =>
            /\ translated' = translated
            /\ ret' = ret
            /\ sent' = sent
            /\ outbuf' = outbuf
            /\ requests' = requests
            /\ Len(echo') <= Len(echo)
            /\ (pc' # pc \/ received' # received) =>
                   \/ pc' = "error"
                   \/ pc' = "idle" /\ queue = << >> /\ received' = received
                   \/ /\ pc' = "draining"
                      /\ queue # << >>
                      /\ received' = Append(received, Head(queue))]_vars

\* a non-key event was handled between a key event and what came after it
C16_Witness ==
    /\ InLoop
    /\ Len(received) = 3
    /\ IsKey(received[1])
    /\ received[2] = OtherEvent
    /\ Len(sent) = 1
    /\ Len(translated) = 1

\* the dispatch loop has been entered
LoopStarted == Installed /\ pc \in { "idle", "draining", "error" }

\* C17: once the dispatch loop has started, no step changes the TargetSet, the
\* MaskTable or the LayoutIndex, whatever the kind of the event handled.
C17_SetupFrozenInLoop ==
    [][LoopStarted =>
          /\ windows' = windows
          /\ masks' = masks
          /\ config'.layout = config.layout]_vars

\* two targets with their masks, and the loop has handled a key event of the
\* server, the synthetic event that came back for it, and a non-key event
C17_Witness ==
    /\ InLoop
    /\ Len(windows) = 2
    /\ Cardinality(DOMAIN masks) = 2
    /\ RealKeys(Handled) # {}
    /\ SyntheticKeys(Handled) # {}
    /\ \E i \in 1 .. Len(Handled) : Handled[i] = OtherEvent

\* C18: the lookup masks[&e.event] never fails: every key event of the server
\* (not synthetic) that is queued for the loop or was fetched by it names a
\* window that is a key of MaskTable, with one target and with all_windows;
\* the turn of the loop on such an event can always be taken.
C18_MaskLookupNeverFails ==
    LoopStarted =>
        /\ \A i \in 1 .. Len(queue) :
               (IsKey(queue[i]) /\ ~ queue[i].sent_event) =>
                   queue[i].event \in DOMAIN masks
        /\ \A i \in RealKeys(received) : received[i].event \in DOMAIN masks
        /\ (pc = "draining" /\ Forwarded(Current)) => ENABLED Dispatch

\* with all_windows, a key event of the second target was looked up and sent;
\* a key event of the first is looked at now
C18_Witness ==
    /\ config.all_windows
    /\ Len(windows) = 2
    /\ pc = "draining"
    /\ Len(received) = 2
    /\ Forwarded(received[1]) /\ received[1].event = windows[2]
    /\ Forwarded(Current) /\ Current.event = windows[1]
    /\ Len(sent) = 1
    /\ sent[1].event_mask = masks[windows[2]]

\* C19: with the name criterion alone, a window of the tree is in the TargetSet
\* if and only if its WM_NAME or its _NET_WM_NAME, stored as UTF8_STRING or as
\* STRING, equals the target string; a window with neither is not in it.
C19_NameMatchesEitherProperty ==
    (/\ Resolved
     /\ config.name # None
     /\ config.wid = None /\ config.class = None /\ config.pid = None) =>
        \A c \in Range(clients) :
            c \in Range(windows) <=> HasName(c, config.name[1])

\* the tree walk is over
Walked == pc = "queried" \/ Resolved

\* C20: the walk from the root returns for every tree, and the candidate list
\* it leaves holds every window below the root, each once, with every window
\* after each of its children, and so after all the windows that hang below it.
C20_DepthFirstCandidates ==
    /\ (pc = "atoms" /\ ~ config.help) =>
         Len(rec_query_tree(Root, << >>)) = Cardinality(Windows)
    /\ Walked =>
         /\ Range(clients) = Windows
         /\ Len(clients) = Cardinality(Windows)
         /\ \A i, j \in 1 .. Len(clients) :
                tree[clients[i]] = clients[j] => i < j

\* a tree with a window below a window of a smaller id has been walked
C20_Witness ==
    /\ Walked
    /\ \E w \in Windows : tree[w] # Root
    /\ \E i \in 1 .. Len(clients) - 1 : clients[i] > clients[i + 1]

====
